---- MODULE Spec2Model ----
(***************************************************************************)
(* BlenderScene (blender/imp/gltf2_blender_scene.py): the import pipeline  *)
(* of BlenderScene.create, the animation layering of create_animations and *)
(* the finalizer (select_imported_objects, set_active_object).             *)
(*                                                                         *)
(* Python lists are sequences; a list index i of the source is position    *)
(* i + 1 here.  An absent list (None) is read by the source only through   *)
(* its truthiness or through `x or []`, so it is the empty sequence.       *)
(* The mesh regrouping that follows set_active_object in create (lines     *)
(* 82-119) is outside the modelled pipeline.                               *)
(***************************************************************************)
EXTENDS Integers, Sequences, FiniteSets, TLC

\* ---------------------------------------------------------------- bounds
\* Largest number of glTF nodes of a document.
MaxNodes == 2
\* Largest number of glTF scenes of a document.
MaxScenes == 2
\* Largest number of glTF animations of a document.
MaxAnims == 2

\* ------------------------------------------------------------- sentinels
\* Python's None, where the other values of the field are integers.
None == -2
\* The key 'root' of gltf.vnodes; the other keys are node indices >= 0.
Root == -1

\* The objects of the host scene before the import (bpy.data.objects).
PriorObjects == {1}

\* ------------------------------------------------------- sequence helpers
IsPrefix(s, t) == Len(s) <= Len(t) /\ \A i \in 1..Len(s) : s[i] = t[i]

RECURSIVE SortedSeq(_)
\* The elements of a finite set of integers in increasing order.
SortedSeq(S) ==
    IF S = {} THEN <<>>
    ELSE LET m == CHOOSE x \in S : \A y \in S : x <= y
         IN  <<m>> \o SortedSeq(S \ {m})

\* Sequences over S of length at most n.
SeqsUpTo(S, n) == UNION {[1..k -> S] : k \in 0..n}

\* ------------------------------------------- the virtual node graph builder
NodeIds(n) == 0..(n - 1)

RECURSIVE ReachesRoot(_, _, _)
\* Following parent links from id reaches the root within k steps.
ReachesRoot(parent, id, k) ==
    IF id = Root THEN TRUE
    ELSE IF k = 0 THEN FALSE
    ELSE ReachesRoot(parent, parent[id], k - 1)

RECURSIVE NearestObject(_, _, _, _)
\* The nearest ancestor of id that is of kind Object, None when the walk
\* reaches the root first.
NearestObject(parent, type, id, k) ==
    LET p == parent[id]
    IN  IF p = Root \/ k = 0 THEN None
        ELSE IF type[p] = "Object" THEN p
        ELSE NearestObject(parent, type, p, k - 1)

\* The vnode mapping of a graph given by its parent links and kinds.
MakeVNodes(n, parent, type) ==
    [id \in NodeIds(n) \cup {Root} |->
        IF id = Root
        THEN [type |-> "DummyRoot", parent |-> None,
              children |-> SortedSeq({c \in NodeIds(n) : parent[c] = Root}),
              bone_arma |-> None, blender_object |-> None]
        ELSE [type |-> type[id], parent |-> parent[id],
              children |-> SortedSeq({c \in NodeIds(n) : parent[c] = id}),
              bone_arma |-> IF type[id] = "Bone"
                            THEN NearestObject(parent, type, id, n)
                            ELSE None,
              blender_object |-> None]]

\* The graphs compute_vnodes can hand back for a document of n nodes: one
\* DummyRoot with key Root, every node with one parent, no cycle, and every
\* Bone below an Object that is its armature.
Graphs(n) ==
    {MakeVNodes(n, parent, type) :
        <<parent, type>> \in
            {pt \in [NodeIds(n) -> NodeIds(n) \cup {Root}]
                    \X [NodeIds(n) -> {"Object", "Bone"}] :
                /\ \A id \in NodeIds(n) : ReachesRoot(pt[1], id, n)
                /\ \A id \in NodeIds(n) :
                      pt[2][id] = "Bone"
                          => NearestObject(pt[1], pt[2], id, n) # None}}

\* ------------------------------------------------------ the node materializer
RECURSIVE PreOrder(_, _)
RECURSIVE PreOrderAll(_, _)
\* The vnodes below and including id, parents before children.
PreOrder(vn, id) == <<id>> \o PreOrderAll(vn, vn[id].children)
PreOrderAll(vn, ids) ==
    IF ids = <<>> THEN <<>>
    ELSE PreOrder(vn, Head(ids)) \o PreOrderAll(vn, Tail(ids))

\* The Object vnodes in the order create_vnode('root') creates their entities.
CreationOrder(vn) == SelectSeq(PreOrder(vn, Root), LAMBDA id : vn[id].type = "Object")

\* The graph after the first k entities were created, given `before` host
\* objects: the i-th new entity is the next free object id.
Materialized(vn, before, k) ==
    LET order == CreationOrder(vn)
    IN  [id \in DOMAIN vn |->
            IF \E i \in 1..k : order[i] = id
            THEN [vn[id] EXCEPT !.blender_object =
                     Cardinality(before) + (CHOOSE i \in 1..k : order[i] = id)]
            ELSE vn[id]]

\* The host objects after the first k entities were created.
ObjectsAfter(before, k) ==
    before \cup {Cardinality(before) + i : i \in 1..k}

\* ------------------------------------------------------------ the document
\* The node lists of a scene of a document of n nodes: none, one node, or
\* a node followed by another one (the source reads nodes[0] alone; the
\* second node keeps the first apart from the last).
SceneNodeLists(n) ==
    {<<>>} \cup {<<x>> : x \in NodeIds(n)}
           \cup {<<x, (x + 1) % n>> : x \in {y \in NodeIds(n) : n >= 2}}

\* Track names are those of the animations, pairwise distinct.
TrackName(anim_idx) == 100 + anim_idx

\* gltf.data: the node count, the scenes (each the list of its node
\* indices), the default scene (an index or None) and the animations.
Documents ==
    UNION {UNION {UNION {
        {[nodes |-> n, scenes |-> scs, scene |-> sc,
          animations |-> [i \in 1..a |-> [track_name |-> TrackName(i - 1)]]] :
            a \in 0..MaxAnims} :
        sc \in {None} \cup (0..(Len(scs) - 1))} :
        scs \in SeqsUpTo({[nodes |-> l] : l \in SceneNodeLists(n)}, MaxScenes)} :
        n \in 0..MaxNodes}

\* ---------------------------------------------------------------- the state
VARIABLES
    data,               \* gltf.data, the parsed document
    vnodes,             \* gltf.vnodes, empty before compute_vnodes
    pc,                 \* position of create in CreatePhases
    anim_pc,            \* position of create_animations: "hook", "loop", "done"
    anim_pos,           \* position of the loop of line 137 in its range
    animation_options,  \* the options object of line 131
    hook_effect,        \* what the gather_import_animations hook did to it
    log,                \* the calls made so far, in order
    tracks,             \* the host's NLA tracks by name, bottom to top
    objects,            \* bpy.data.objects
    selected,           \* the selected host objects
    active,             \* view_layer.objects.active, or None
    candidate,          \* the local vnode of set_active_object at line 179
    failed_at           \* the phase that raised, "" while none did

vars == <<data, vnodes, pc, anim_pc, anim_pos, animation_options, hook_effect,
          log, tracks, objects, selected, active, candidate, failed_at>>

\* ------------------------------------------------------------ BlenderScene
\* A variant of CreatePhases: the animations before the materializer.
CreatePhasesAnimationsFirst ==
    <<"scene_before_hook", "compute_vnodes", "create_animations",
      "create_vnode", "after_nodes_hook", "after_animation_hook",
      "select_imported_objects", "set_active_object">>
\* The statements of create, in source order.
CreatePhases ==
    <<"scene_before_hook", "compute_vnodes", "create_vnode",
      "after_nodes_hook", "create_animations", "after_animation_hook",
      "select_imported_objects", "set_active_object">>

Phase(name) == CHOOSE i \in 1..Len(CreatePhases) : CreatePhases[i] = name
Returned == Len(CreatePhases) + 1

\* A variant of Running: a raised exception is swallowed.
RunningAfterFailure == TRUE
\* create has no exception handler: once a call raised, no statement runs.
Running == failed_at = ""

At(name) == Running /\ pc = Phase(name)

Call(op, arg) == [op |-> op, arg |-> arg]
BoolArg(b) == IF b THEN 1 ELSE 0

\* Either the phase returns and create goes on, or it raises.
Returns == pc' = pc + 1 /\ failed_at' = failed_at
Raises(name) == pc' = pc /\ failed_at' = name

\* A variant of IMPORT_animation_options: the default is false.
OptionsDefaultFalse == [restore_first_anim |-> FALSE]
\* The options class of lines 127-131, default-constructed.
IMPORT_animation_options == [restore_first_anim |-> TRUE]

\* A variant of AnimOrder: range(n), not reversed.
DeclarationOrder(n) == [k \in 1..n |-> k - 1]
\* The indices create_animations hands to anim, in order:
\* reversed(range(n)), line 137.
AnimOrder(n) == [k \in 1..n |-> n - k]

\* A variant of RestoreName: the name of the last animation.
LastTrackName(animations) == animations[Len(animations)].track_name
\* The name handed to restore_animation, line 142.
RestoreName(animations) == animations[1].track_name

\* The host stacks a new NLA track on top of the existing ones.
AddTrack(stack, name) == Append(stack, name)

\* The vnodes of kind Object in the order of gltf.vnodes.values(): the
\* nodes by index (the root, never an Object, comes last).
ObjectVNodes(vn) ==
    SortedSeq({v \in DOMAIN vn : vn[v].type = "Object"})

\* The objects select_imported_objects selects: the entities of the vnodes
\* of kind Object, lines 151-153.
ImportedObjects(vn) ==
    {vn[id].blender_object : id \in {v \in DOMAIN vn : vn[v].type = "Object"}}

\* A variant of FirstSceneWithNodes: only scenes[0] is looked at.
FirstSceneOnly(scenes) ==
    IF Len(scenes) > 0 /\ scenes[1].nodes # <<>> THEN 1 ELSE 0
\* The first scene, in declaration order, that lists a node: the position
\* at which the loop of lines 168-171 breaks, 0 when it runs to its end.
FirstSceneWithNodes(scenes) ==
    IF \E i \in 1..Len(scenes) : scenes[i].nodes # <<>>
    THEN CHOOSE i \in 1..Len(scenes) :
            /\ scenes[i].nodes # <<>>
            /\ \A j \in 1..(i - 1) : scenes[j].nodes = <<>>
    ELSE 0

\* The local vnode of set_active_object after lines 160-178 (a key of
\* gltf.vnodes), None where the function returns at line 177.
ResolveVNode(d, vn) ==
    LET fromDefault ==
            IF d.scene # None /\ d.scenes[d.scene + 1].nodes # <<>>
            THEN d.scenes[d.scene + 1].nodes[1]
            ELSE None
        fromScenes ==
            IF fromDefault # None THEN fromDefault
            ELSE IF FirstSceneWithNodes(d.scenes) # 0
            THEN d.scenes[FirstSceneWithNodes(d.scenes)].nodes[1]
            ELSE None
    IN  IF fromScenes # None THEN fromScenes
        ELSE IF vn[Root].type = "DummyRoot"
        THEN IF vn[Root].children = <<>> THEN None
             ELSE vn[Root].children[1]
        ELSE Root

\* A variant of ArmatureOf: a Bone is kept.
KeepBone(vn, id) == id
\* Lines 180-181: a Bone gives way to its armature.
ArmatureOf(vn, id) ==
    IF vn[id].type = "Bone" THEN vn[id].bone_arma ELSE id

\* A variant of ActiveAfter: without a node the active object is cleared.
ActiveCleared(vn, vnode, before) ==
    IF vnode = None THEN None
    ELSE vn[ArmatureOf(vn, vnode)].blender_object
\* Lines 173-183: the host's active object once set_active_object has
\* returned, `before` being the one active when it was called.  At line 177
\* the function returns without an assignment.
ActiveAfter(vn, vnode, before) ==
    IF vnode = None THEN before
    ELSE vn[ArmatureOf(vn, vnode)].blender_object

\* ---------------------------------------------------------------- actions
\* Lines 40-43: the scene-before hook, only with a default scene.
SceneBeforeHook ==
    /\ At("scene_before_hook")
    /\ \/ /\ data.scene = None
          /\ log' = log
          /\ Returns
       \/ /\ data.scene # None
          /\ log' = Append(log, Call("gather_import_scene_before_hook", data.scene))
          /\ Returns \/ Raises("scene_before_hook")
    /\ UNCHANGED <<data, vnodes, anim_pc, anim_pos, animation_options,
                   hook_effect, tracks, objects, selected, active, candidate>>

\* Line 45: the graph builder.
ComputeVNodes ==
    /\ At("compute_vnodes")
    /\ log' = Append(log, Call("compute_vnodes", None))
    /\ \/ /\ \E g \in Graphs(data.nodes) : vnodes' = g
          /\ Returns
       \/ /\ vnodes' = vnodes
          /\ Raises("compute_vnodes")
    /\ UNCHANGED <<data, anim_pc, anim_pos, animation_options, hook_effect,
                   tracks, objects, selected, active, candidate>>

\* Lines 47-48: the materializer; when it raises, the entities created so
\* far stay.
CreateVNode ==
    /\ At("create_vnode")
    /\ log' = Append(log, Call("create_vnode", Root))
    /\ \E k \in 0..Len(CreationOrder(vnodes)) :
          /\ vnodes' = Materialized(vnodes, objects, k)
          /\ objects' = ObjectsAfter(objects, k)
          /\ \/ k = Len(CreationOrder(vnodes)) /\ Returns
             \/ Raises("create_vnode")
    /\ UNCHANGED <<data, anim_pc, anim_pos, animation_options, hook_effect,
                   tracks, selected, active, candidate>>

\* Lines 64-67: the after-nodes hook.
AfterNodesHook ==
    /\ At("after_nodes_hook")
    /\ log' = Append(log, Call("gather_import_scene_after_nodes_hook", data.scene))
    /\ Returns \/ Raises("after_nodes_hook")
    /\ UNCHANGED <<data, vnodes, anim_pc, anim_pos, animation_options,
                   hook_effect, tracks, objects, selected, active, candidate>>

\* Lines 127-134: the options object, the hook that leaves it as it is or
\* sets restore_first_anim to false (a hook that sets it to true leaves the
\* default-constructed object as it is), and the test of the animation list.
GatherImportAnimations ==
    /\ At("create_animations") /\ anim_pc = "hook"
    /\ log' = Append(log, Call("gather_import_animations",
                               BoolArg(IMPORT_animation_options.restore_first_anim)))
    /\ \/ /\ \/ /\ hook_effect' = "untouched"
                /\ animation_options' = IMPORT_animation_options
             \/ /\ hook_effect' = "set_false"
                /\ animation_options' = [restore_first_anim |-> FALSE]
          /\ IF data.animations # <<>>
             THEN anim_pc' = "loop" /\ anim_pos' = 1 /\ pc' = pc
             ELSE anim_pc' = "done" /\ anim_pos' = anim_pos /\ pc' = pc + 1
          /\ failed_at' = failed_at
       \/ /\ Raises("create_animations")
          /\ UNCHANGED <<anim_pc, anim_pos, animation_options, hook_effect>>
    /\ UNCHANGED <<data, vnodes, tracks, objects, selected, active, candidate>>

\* Lines 137-138: one turn of the loop; a call of anim that raises may or
\* may not have added its track.
Anim ==
    /\ At("create_animations") /\ anim_pc = "loop"
    /\ anim_pos <= Len(AnimOrder(Len(data.animations)))
    /\ LET anim_idx == AnimOrder(Len(data.animations))[anim_pos]
           name == data.animations[anim_idx + 1].track_name
       IN  /\ log' = Append(log, Call("anim", anim_idx))
           /\ \/ /\ tracks' = AddTrack(tracks, name)
                 /\ anim_pos' = anim_pos + 1
                 /\ pc' = pc /\ failed_at' = failed_at
              \/ /\ tracks' \in {tracks, AddTrack(tracks, name)}
                 /\ anim_pos' = anim_pos
                 /\ Raises("create_animations")
    /\ UNCHANGED <<data, vnodes, anim_pc, animation_options, hook_effect,
                   objects, selected, active, candidate>>

\* Lines 140-143: after the loop, the restore step.
RestoreFirst ==
    /\ At("create_animations") /\ anim_pc = "loop"
    /\ anim_pos > Len(AnimOrder(Len(data.animations)))
    /\ \/ /\ animation_options.restore_first_anim
          /\ log' = Append(log, Call("restore_animation", RestoreName(data.animations)))
          /\ \/ anim_pc' = "done" /\ Returns
             \/ anim_pc' = anim_pc /\ Raises("create_animations")
       \/ /\ ~animation_options.restore_first_anim
          /\ log' = log
          /\ anim_pc' = "done" /\ Returns
    /\ UNCHANGED <<data, vnodes, anim_pos, animation_options, hook_effect,
                   tracks, objects, selected, active, candidate>>

\* Lines 72-75: the after-animation hook.
AfterAnimationHook ==
    /\ At("after_animation_hook")
    /\ log' = Append(log, Call("gather_import_scene_after_animation_hook", data.scene))
    /\ Returns \/ Raises("after_animation_hook")
    /\ UNCHANGED <<data, vnodes, anim_pc, anim_pos, animation_options,
                   hook_effect, tracks, objects, selected, active, candidate>>

\* Lines 79 and 146-153: DESELECT runs only when its poll allows it; then
\* every imported object is selected, in the order of gltf.vnodes.  When a
\* select_set raises, the objects before it are selected.
SelectImportedObjects ==
    /\ At("select_imported_objects")
    /\ log' = Append(log, Call("select_imported_objects", None))
    /\ \E poll \in BOOLEAN :
          LET cleared == IF poll THEN {} ELSE selected
          IN  \/ /\ selected' = cleared \cup ImportedObjects(vnodes)
                 /\ Returns
              \/ /\ \E k \in 1..Len(ObjectVNodes(vnodes)) :
                        selected' = cleared \cup
                            {vnodes[ObjectVNodes(vnodes)[i]].blender_object :
                                i \in 1..(k - 1)}
                 /\ Raises("select_imported_objects")
    /\ UNCHANGED <<data, vnodes, anim_pc, anim_pos, animation_options,
                   hook_effect, tracks, objects, active, candidate>>

\* Lines 80 and 156-183.
SetActiveObject ==
    /\ At("set_active_object")
    /\ log' = Append(log, Call("set_active_object", None))
    /\ candidate' = ResolveVNode(data, vnodes)
    /\ \/ /\ active' = ActiveAfter(vnodes, candidate', active)
          /\ Returns
       \/ /\ candidate' # None
          /\ active' = active
          /\ Raises("set_active_object")
    /\ UNCHANGED <<data, vnodes, anim_pc, anim_pos, animation_options,
                   hook_effect, tracks, objects, selected>>

\* ---------------------------------------------------------- specifications
\* The host before the import: its objects, any of them selected, one of
\* them active or none.
HostBefore ==
    /\ objects = PriorObjects
    /\ selected \in SUBSET PriorObjects
    /\ active \in PriorObjects \cup {None}

\* create from its first statement, over the documents with at most one
\* scene (the scenes are read by the finalizer alone, which FinalizerSpec
\* runs over every document).
Init ==
    /\ data \in {d \in Documents : Len(d.scenes) <= 1}
    /\ vnodes = [id \in {} |-> None]
    /\ pc = 1
    /\ anim_pc = "hook"
    /\ anim_pos = 0
    /\ animation_options = IMPORT_animation_options
    /\ hook_effect = "pending"
    /\ log = <<>>
    /\ tracks = <<>>
    /\ HostBefore
    /\ candidate = None
    /\ failed_at = ""

Next ==
    \/ SceneBeforeHook
    \/ ComputeVNodes
    \/ CreateVNode
    \/ AfterNodesHook
    \/ GatherImportAnimations
    \/ Anim
    \/ RestoreFirst
    \/ AfterAnimationHook
    \/ SelectImportedObjects
    \/ SetActiveObject

Spec == Init /\ [][Next]_vars

\* The finalizer on its own: create has reached select_imported_objects on a
\* document without animations, over every document and graph in the bounds.
FinalizerInit ==
    /\ data \in {d \in Documents : d.animations = <<>>}
    /\ \E g \in Graphs(data.nodes) :
          /\ vnodes = Materialized(g, PriorObjects, Len(CreationOrder(g)))
          /\ objects = ObjectsAfter(PriorObjects, Len(CreationOrder(g)))
    /\ pc = Phase("select_imported_objects")
    /\ anim_pc = "done"
    /\ anim_pos = 0
    /\ animation_options = IMPORT_animation_options
    /\ hook_effect = "untouched"
    /\ log = (IF data.scene # None
              THEN <<Call("gather_import_scene_before_hook", data.scene)>>
              ELSE <<>>)
             \o <<Call("compute_vnodes", None), Call("create_vnode", Root),
                  Call("gather_import_scene_after_nodes_hook", data.scene),
                  Call("gather_import_animations", BoolArg(TRUE)),
                  Call("gather_import_scene_after_animation_hook", data.scene)>>
    /\ tracks = <<>>
    /\ selected \in SUBSET PriorObjects
    /\ active \in PriorObjects \cup {None}
    /\ candidate = None
    /\ failed_at = ""

FinalizerNext ==
    \/ SelectImportedObjects
    \/ SetActiveObject

FinalizerSpec == FinalizerInit /\ [][FinalizerNext]_vars

\* ------------------------------------------------------- reading the log
\* The positions of log that hold a call of op.
CallsOf(op) == {i \in 1..Len(log) : log[i].op = op}
\* The arguments of the calls of op, in call order.
ArgsOf(op) ==
    LET calls == SelectSeq(log, LAMBDA e : e.op = op)
    IN  [i \in 1..Len(calls) |-> calls[i].arg]
NumAnims == Len(data.animations)

\* ------------------------------------------------------------------- C1
\* C1: with N >= 1 animations, anim is called in the order N-1, N-2, ..., 0:
\* the k-th call is for index N-k, no index is called twice, and once
\* create_animations has returned every index 0..N-1 was called once.
C1_ReverseCreationOrder ==
    LET calls == ArgsOf("anim")
    IN  /\ Len(calls) <= NumAnims
        /\ \A k \in 1..Len(calls) : calls[k] = NumAnims - k
        /\ \A k \in 1..Len(calls) : \A m \in 1..Len(calls) :
              (k < m) => calls[k] > calls[m]
        /\ anim_pc = "done" => Len(calls) = NumAnims

C1_Witness ==
    /\ anim_pc = "done" /\ failed_at = ""
    /\ NumAnims >= 2
    /\ ArgsOf("anim")[1] = NumAnims - 1
    /\ ArgsOf("anim")[NumAnims] = 0

\* ------------------------------------------------------------------- C2
\* C2: after create_animations has returned, every animation has one track,
\* the track of animation 0 is topmost, and the track of animation i lies
\* above the track of animation j whenever i < j.
C2_DeclarationOrderIsPriority ==
    (anim_pc = "done" /\ NumAnims >= 1) =>
        /\ Len(tracks) = NumAnims
        /\ tracks[Len(tracks)] = data.animations[1].track_name
        /\ \A i \in 1..NumAnims : \A j \in 1..NumAnims :
              (i < j) =>
                 \E p \in 1..Len(tracks) : \E q \in 1..Len(tracks) :
                    /\ tracks[p] = data.animations[i].track_name
                    /\ tracks[q] = data.animations[j].track_name
                    /\ p > q

C2_Witness ==
    /\ anim_pc = "done" /\ failed_at = ""
    /\ NumAnims >= 2
    /\ tracks[Len(tracks)] = TrackName(0)
    /\ tracks[1] = TrackName(NumAnims - 1)

\* ------------------------------------------------------------------- C3
\* C3: restore_animation is called at most once, only with restore_first
\* set and a non-empty animation list, with the track name of animation 0,
\* and only after anim was called for every animation and every track
\* exists; once create_animations has returned with restore_first set and
\* N >= 1 it was called exactly once.
C3_RestoreIsExplicitAndLast ==
    /\ Cardinality(CallsOf("restore_animation")) <= 1
    /\ \A p \in CallsOf("restore_animation") :
          /\ NumAnims >= 1
          /\ animation_options.restore_first_anim
          /\ log[p].arg = data.animations[1].track_name
          /\ Cardinality({i \in CallsOf("anim") : i < p}) = NumAnims
          /\ \A i \in CallsOf("anim") : i < p
          /\ Len(tracks) = NumAnims
    /\ (anim_pc = "done" /\ NumAnims >= 1 /\ animation_options.restore_first_anim)
          => Cardinality(CallsOf("restore_animation")) = 1
    /\ (anim_pc = "done" /\ (NumAnims = 0 \/ ~animation_options.restore_first_anim))
          => CallsOf("restore_animation") = {}

C3_Witness ==
    /\ anim_pc = "done" /\ failed_at = ""
    /\ NumAnims >= 2
    /\ log[Len(log)] = Call("restore_animation", TrackName(0))

\* ------------------------------------------------------------------- C4
\* C4: the gather_import_animations hook is called at most once, exactly
\* once as soon as create_animations is past it (also without animations),
\* before every call of anim and before any track exists; it receives
\* restore_first_anim = true; and with N >= 1 the value it leaves decides
\* the restore step: set false, no restore; untouched, one restore.
C4_HookBeforeLayering ==
    /\ Cardinality(CallsOf("gather_import_animations")) <= 1
    /\ anim_pc # "hook" => Cardinality(CallsOf("gather_import_animations")) = 1
    /\ \A p \in CallsOf("anim") \cup CallsOf("restore_animation") :
          \E h \in CallsOf("gather_import_animations") : h < p
    /\ tracks # <<>> => CallsOf("gather_import_animations") # {}
    /\ \A h \in CallsOf("gather_import_animations") : log[h].arg = BoolArg(TRUE)
    /\ (anim_pc = "done" /\ NumAnims >= 1) =>
          /\ hook_effect = "set_false" => CallsOf("restore_animation") = {}
          /\ hook_effect = "untouched"
                => Cardinality(CallsOf("restore_animation")) = 1

C4_Witness ==
    /\ anim_pc = "done" /\ failed_at = ""
    /\ NumAnims >= 1
    /\ hook_effect = "set_false"
    /\ Len(tracks) = NumAnims
    /\ CallsOf("restore_animation") = {}

\* ------------------------------------------------------------------- C9
\* The calls of one run of create, in the order the claim gives them.
C9_Order ==
    <<"gather_import_scene_before_hook", "compute_vnodes", "create_vnode",
      "gather_import_scene_after_nodes_hook", "gather_import_animations",
      "anim", "restore_animation", "gather_import_scene_after_animation_hook",
      "select_imported_objects", "set_active_object">>
C9_Rank(op) == CHOOSE r \in 1..Len(C9_Order) : C9_Order[r] = op
\* The calls every run makes as far as it gets.
C9_Mandatory ==
    {"compute_vnodes", "create_vnode", "gather_import_scene_after_nodes_hook",
     "gather_import_animations", "gather_import_scene_after_animation_hook",
     "select_imported_objects", "set_active_object"}

\* C9: each call of create is followed by one of the same or a later place
\* in the fixed order, of the same place only for anim, so the calls follow
\* the order, each at most once (anim once per animation); every call the
\* order puts before the last call made was made, so no phase is skipped; the scene-before hook runs
\* exactly when a default scene is designated; no track exists before every
\* Object node is materialized; selection and the active object are set
\* only after anim was called for every animation.
C9_PhaseOrder ==
    /\ \A i \in 1..(Len(log) - 1) :
          /\ C9_Rank(log[i].op) <= C9_Rank(log[i + 1].op)
          /\ C9_Rank(log[i].op) = C9_Rank(log[i + 1].op) => log[i].op = "anim"
    /\ \A m \in C9_Mandatory :
          (log # <<>> /\ C9_Rank(m) < C9_Rank(log[Len(log)].op))
              => CallsOf(m) # {}
    /\ CallsOf("gather_import_scene_before_hook") # {} => data.scene # None
    /\ (data.scene # None /\ log # <<>>)
          => log[1].op = "gather_import_scene_before_hook"
    /\ (tracks # <<>> \/ CallsOf("anim") # {}) =>
          /\ CallsOf("create_vnode") # {}
          /\ \A id \in DOMAIN vnodes :
                vnodes[id].type = "Object" => vnodes[id].blender_object # None
    /\ (CallsOf("select_imported_objects") # {} \/ CallsOf("set_active_object") # {})
          => Cardinality(CallsOf("anim")) = NumAnims
    /\ (CallsOf("set_active_object") # {} /\ failed_at = "") => pc = Returned

C9_Witness ==
    /\ pc = Returned /\ failed_at = ""
    /\ data.scene # None /\ NumAnims >= 2 /\ data.nodes >= 1
    /\ CallsOf("restore_animation") # {}
    /\ log[1].op = "gather_import_scene_before_hook"
    /\ log[Len(log)].op = "set_active_object"

\* ------------------------------------------------------------------ C10
\* The calls each phase of create makes.
C10_CallsOfPhase(phase) ==
    CASE phase = "scene_before_hook" -> {"gather_import_scene_before_hook"}
      [] phase = "compute_vnodes" -> {"compute_vnodes"}
      [] phase = "create_vnode" -> {"create_vnode"}
      [] phase = "after_nodes_hook" -> {"gather_import_scene_after_nodes_hook"}
      [] phase = "create_animations" ->
            {"gather_import_animations", "anim", "restore_animation"}
      [] phase = "after_animation_hook" ->
            {"gather_import_scene_after_animation_hook"}
      [] phase = "select_imported_objects" -> {"select_imported_objects"}
      [] phase = "set_active_object" -> {"set_active_object"}
      [] OTHER -> {}

\* C10: once a step has raised, the last call made is the one that raised
\* and nothing runs any more: no call, no track, no host object, no change
\* of selection or active object; nothing is ever rolled back: host objects
\* and tracks only grow; and when the graph builder raised, no host entity
\* was created.
C10_FailureAborts ==
    /\ [](failed_at # "" =>
             /\ log # <<>>
             /\ log[Len(log)].op \in C10_CallsOfPhase(failed_at))
    /\ [](failed_at = "compute_vnodes" =>
             /\ objects = PriorObjects
             /\ tracks = <<>>)
    /\ [][/\ failed_at # "" =>
                /\ log' = log /\ tracks' = tracks /\ objects' = objects
                /\ selected' = selected /\ active' = active
                /\ failed_at' = failed_at
          /\ objects \subseteq objects'
          /\ IsPrefix(tracks, tracks')
          /\ IsPrefix(log, log')]_vars

C10_Witness ==
    /\ failed_at = "create_animations"
    /\ log[Len(log)].op = "anim"
    /\ NumAnims >= 2
    /\ Len(tracks) = 1
    /\ Cardinality(CallsOf("anim")) = 2
    /\ objects # PriorObjects
    /\ CallsOf("restore_animation") = {}
    /\ CallsOf("select_imported_objects") = {}

\* ------------------------------------------------------------------- C5
SelectReturned ==
    CallsOf("select_imported_objects") # {} /\ failed_at # "select_imported_objects"

\* C5: once select_imported_objects has returned, the selected objects are
\* exactly the entities of the vnodes of kind Object, whatever was selected
\* before: no object of the host from before the import is selected.
C5_AllAndOnlyImported ==
    SelectReturned =>
        /\ selected = ImportedObjects(vnodes)
        /\ selected \cap PriorObjects = {}

\* ------------------------------------------------------------------- C6
SetActiveCalled == CallsOf("set_active_object") # {}
\* The nodes the designated default scene lists, none without one.
C6_DefaultNodes ==
    IF data.scene = None THEN <<>> ELSE data.scenes[data.scene + 1].nodes

\* C6 as claimed: (a) the first node of the default scene, (b) else the
\* first node of the first scene, (c) else the first child of the root,
\* (d) else none.
C6_AsClaimed ==
    SetActiveCalled =>
        candidate =
            IF C6_DefaultNodes # <<>> THEN C6_DefaultNodes[1]
            ELSE IF data.scenes # <<>> /\ data.scenes[1].nodes # <<>>
            THEN data.scenes[1].nodes[1]
            ELSE IF vnodes[Root].children # <<>> THEN vnodes[Root].children[1]
            ELSE None

\* C6 as amended: rule (b) is the first node of the first scene, in
\* declaration order, that lists any node.
C6_FirstSceneThatListsNodes ==
    LET listing == {i \in 1..Len(data.scenes) : data.scenes[i].nodes # <<>>}
    IN  SetActiveCalled =>
            IF C6_DefaultNodes # <<>> THEN candidate = C6_DefaultNodes[1]
            ELSE IF listing # {}
            THEN \E i \in listing :
                    /\ \A j \in listing : i <= j
                    /\ candidate = data.scenes[i].nodes[1]
            ELSE IF vnodes[Root].children # <<>>
            THEN candidate = vnodes[Root].children[1]
            ELSE candidate = None

C6_Witness ==
    /\ SetActiveCalled
    /\ C6_DefaultNodes = <<>>
    /\ Len(data.scenes) >= 2
    /\ data.scenes[1].nodes = <<>>
    /\ data.scenes[2].nodes # <<>>
    /\ candidate = data.scenes[2].nodes[1]
    /\ candidate # vnodes[Root].children[1]

\* ------------------------------------------------------------------- C7
SetActiveAssigned ==
    SetActiveCalled /\ failed_at # "set_active_object" /\ candidate # None

\* C7: when set_active_object has assigned the active object, it is the
\* entity of a vnode of kind Object: that of the resolved node when it is
\* an Object, that of its bone_arma when it is a Bone.
C7_ActiveIsAnObject ==
    SetActiveAssigned =>
        /\ \E id \in DOMAIN vnodes :
              /\ vnodes[id].type = "Object"
              /\ vnodes[id].blender_object = active
        /\ active \in objects
        /\ vnodes[candidate].type = "Bone"
              => active = vnodes[vnodes[candidate].bone_arma].blender_object
        /\ vnodes[candidate].type = "Object"
              => active = vnodes[candidate].blender_object

C7_Witness ==
    /\ SetActiveAssigned
    /\ vnodes[candidate].type = "Bone"
    /\ vnodes[vnodes[candidate].bone_arma].type = "Object"
    /\ active = vnodes[vnodes[candidate].bone_arma].blender_object
    /\ active # None

\* ------------------------------------------------------------------- C8
\* C8 as claimed: for a document without nodes set_active_object raises
\* nothing and leaves the host without an active object.
C8_AsClaimed ==
    (SetActiveCalled /\ data.nodes = 0) =>
        /\ failed_at = ""
        /\ active = None

\* C8 as amended: for a document without nodes the call of
\* set_active_object raises nothing, resolves no node and assigns nothing:
\* the active object after the call is the one from before it.
C8_NoNodesLeavesActive ==
    [][(data.nodes = 0 /\ ~SetActiveCalled /\ SetActiveCalled') =>
          /\ failed_at' = ""
          /\ candidate' = None
          /\ active' = active]_vars

C8_Witness ==
    /\ SetActiveCalled /\ data.nodes = 0
    /\ failed_at = ""
    /\ candidate = None
    /\ active \in PriorObjects

====
